---- MODULE Spec2Model ----
(***************************************************************************)
(* The meeting-slot scheduling tools of src/mcp/main.py: schedule_meeting, *)
(* get_free_slots and add_potential_slot over the meeting_slots collection *)
(* of one MongoDB database, with the lazy connection and first-run seeding *)
(* of connect_to_mongo.                                                    *)
(*                                                                         *)
(* Beside the tools: the overlap test on its own, the session-to-thread    *)
(* mapper of src/common/session_thread_mapper.py with its global           *)
(* singleton, and the agent executors of                                   *)
(* src/common/langgraph_agent_executor.py and                              *)
(* src/support_agent/agent_executor.py.                                    *)
(*                                                                         *)
(* Every tool call is an asyncio task.  A task runs without interruption   *)
(* between two awaits of a store operation, so one action below is one     *)
(* store round-trip together with the local code up to the next one.       *)
(* Timestamps are seconds since 2025-07-01T00:00:00.                       *)
(***************************************************************************)
EXTENDS Integers, Sequences, FiniteSets, TLC

VARIABLES
    mongo_client,   \* the global client of main.py: "None" or "client"
    db,             \* the global database handle: "None" or "db"
    store,          \* the meeting_slots collection, in insertion order
    next_oid,       \* the ObjectId generator: the next identifier it issues
    task,           \* per tool-call task: its position and its locals
    pre,            \* the collection as it was when the body of the tool
                    \* call that started last began (after the connection)
    probe,          \* the overlap test applied to one pair of intervals
    session_to_thread,  \* SessionThreadMapper._session_to_thread
    thread_to_session,  \* SessionThreadMapper._thread_to_session
    mapper_log,     \* the calls made on the mapper, with what they returned
    a2a_task,       \* per A2A task: the position of the executor's execute
    event_queue,    \* per A2A task: the events published for it
    session_mapper_instance,  \* the global _session_mapper_instance
    instance_lock,  \* _instance_lock: the thread that holds it, if one does
    caller,         \* per thread: its get_session_mapper or
                    \* reset_session_mapper call, and what it returned
    resets,         \* reset_session_mapper calls started and taken effect
    created         \* per SessionThreadMapper instance constructed: the
                    \* number of resets that had taken effect by then

toolVars == <<mongo_client, db, store, next_oid, task, pre>>
mapperVars == <<session_to_thread, thread_to_session, mapper_log>>
executorVars == <<a2a_task, event_queue>>
singletonVars == <<session_mapper_instance, instance_lock, caller, resets, created>>
\* What the tools of src/mcp/main.py do not touch.
beyondTools == <<probe, mapperVars, executorVars, singletonVars>>
vars == <<toolVars, probe, mapperVars, executorVars, singletonVars>>

(***************************************************************************)
(* Bounds of the model.                                                    *)
(***************************************************************************)
\* Concurrent tool-call tasks.
NumProcs == 2
\* Documents in the collection: a call that may insert one is started only
\* while fewer than MaxSlots are stored, about to be seeded or about to be
\* inserted by a call in progress.
MaxSlots == 5

Procs == 1..NumProcs

(***************************************************************************)
(* Optional values (Python's None or a value).                             *)
(***************************************************************************)
None == <<>>
Some(x) == <<x>>
Get(o) == o[1]

(***************************************************************************)
(* datetime and timedelta.                                                 *)
(***************************************************************************)
At(h, m) == (h * 60 + m) * 60
TimedeltaHours(n) == n * 3600
TimedeltaMinutes(n) == n * 60
\* datetime.minute
MinuteOf(t) == (t \div 60) % 60
\* now.replace(minute=0, second=0, microsecond=0)
ReplaceMinuteSecondZero(t) == t - (t % 3600)

(***************************************************************************)
(* Documents of the collection.                                            *)
(***************************************************************************)
\* str(ObjectId): the identifier as the responses carry it.
ObjectIdStr(oid) == ToString(oid)

\* MeetingSlotDB with a fault: booked left at the class default, False.
MeetingSlotDBDefaultBooked(oid, f, booked) ==
    [id |-> oid, title |-> f.title, description |-> f.description,
     name |-> f.name, phone_number |-> f.phone_number,
     start_time |-> f.start_time, end_time |-> f.end_time, booked |-> FALSE]

\* MeetingSlotDB(...).model_dump(by_alias=True): the document that is stored.
MeetingSlotDB(oid, f, booked) ==
    [id |-> oid, title |-> f.title, description |-> f.description,
     name |-> f.name, phone_number |-> f.phone_number,
     start_time |-> f.start_time, end_time |-> f.end_time, booked |-> booked]

\* MeetingSlotResponse built from a stored document.
MeetingSlotResponse(doc) ==
    [id |-> ObjectIdStr(doc.id), title |-> doc.title,
     description |-> doc.description, name |-> doc.name,
     phone_number |-> doc.phone_number, start_time |-> doc.start_time,
     end_time |-> doc.end_time, booked |-> doc.booked]

\* The dummy response of the conflict path.
ConflictResponse(doc) ==
    [id |-> ObjectIdStr(doc.id), title |-> "Conflicting Meeting",
     description |-> "Cannot book this slot due to an existing meeting.",
     name |-> doc.name, phone_number |-> doc.phone_number,
     start_time |-> doc.start_time, end_time |-> doc.end_time,
     booked |-> FALSE]

FreeSlotResponse(s, e) == [start_time |-> s, end_time |-> e]

initial_slots_data ==
    << [title |-> "Team Sync", description |-> "Weekly team synchronization",
        name |-> "Dev Team", phone_number |-> "N/A",
        start_time |-> At(9, 0), end_time |-> At(9, 30), booked |-> FALSE],
       [title |-> "Client Call", description |-> "Follow-up with Client X",
        name |-> "Client X", phone_number |-> "123-456-7890",
        start_time |-> At(10, 0), end_time |-> At(10, 30), booked |-> TRUE],
       [title |-> "Project Planning", description |-> "Plan next sprint",
        name |-> "Project Alpha", phone_number |-> "N/A",
        start_time |-> At(11, 0), end_time |-> At(11, 30), booked |-> FALSE] >>

(***************************************************************************)
(* Store operations.                                                       *)
(***************************************************************************)
Docs(coll) == {coll[i] : i \in 1..Len(coll)}

\* {"start_time": request.start_time, "end_time": request.end_time,
\*  "booked": False}
ExactUnbookedQuery(doc, start_time, end_time) ==
    /\ doc.start_time = start_time
    /\ doc.end_time = end_time
    /\ doc.booked = FALSE

\* OverlapQuery with a fault: the containment clause left out.
OverlapQueryWithoutContainClause(doc, slot_start, slot_end) ==
    /\ doc.booked = TRUE
    /\ \/ doc.start_time < slot_end /\ doc.start_time >= slot_start
       \/ doc.end_time > slot_start /\ doc.end_time <= slot_end

\* OverlapQuery with a fault: the end_time clause left out.
OverlapQueryWithoutEndClause(doc, slot_start, slot_end) ==
    /\ doc.booked = TRUE
    /\ \/ doc.start_time < slot_end /\ doc.start_time >= slot_start
       \/ doc.start_time <= slot_start /\ doc.end_time >= slot_end

\* OverlapQuery with a fault: the end_time clause takes $gte for $gt.
OverlapQueryEndInclusive(doc, slot_start, slot_end) ==
    /\ doc.booked = TRUE
    /\ \/ doc.start_time < slot_end /\ doc.start_time >= slot_start
       \/ doc.end_time >= slot_start /\ doc.end_time <= slot_end
       \/ doc.start_time <= slot_start /\ doc.end_time >= slot_end

\* overlap_query: {"booked": True, "$or": [three clauses]}
OverlapQuery(doc, slot_start, slot_end) ==
    /\ doc.booked = TRUE
    /\ \/ doc.start_time < slot_end /\ doc.start_time >= slot_start
       \/ doc.end_time > slot_start /\ doc.end_time <= slot_end
       \/ doc.start_time <= slot_start /\ doc.end_time >= slot_end

\* collection.find_one(query): the documents it may return; None when the
\* set is empty.  Which of several matching documents is returned is left
\* to the store.
FindOneExactUnbooked(coll, start_time, end_time) ==
    {d \in Docs(coll) : ExactUnbookedQuery(d, start_time, end_time)}

FindOneOverlap(coll, slot_start, slot_end) ==
    {d \in Docs(coll) : OverlapQuery(d, slot_start, slot_end)}

\* collection.find_one({"_id": oid})
FindOneById(coll, oid) == {d \in Docs(coll) : d.id = oid}

\* collection.insert_one(doc)
InsertOne(coll, doc) == Append(coll, doc)

\* SetFields with a fault, to test what depends on it: update_fields
\* without the contact fields.
SetFieldsWithoutContact(doc, request) ==
    [doc EXCEPT !.booked = TRUE, !.title = request.title,
                !.description = request.description]

\* SetFields with a fault: update_fields also sets end_time, half an hour on.
SetFieldsMovesEnd(doc, request) ==
    [doc EXCEPT !.booked = TRUE, !.title = request.title,
                !.description = request.description, !.name = request.name,
                !.phone_number = request.phone_number,
                !.end_time = request.end_time + 1800]

\* collection.find_one_and_update({"_id": oid}, {"$set": update_fields},
\* return_document=AFTER)
SetFields(doc, request) ==
    [doc EXCEPT !.booked = TRUE, !.title = request.title,
                !.description = request.description, !.name = request.name,
                !.phone_number = request.phone_number]

\* FindOneAndUpdate with a fault: the collection is replaced by the updated
\* document.
FindOneAndUpdateDropsOthers(coll, oid, request) ==
    SelectSeq([i \in 1..Len(coll) |->
                  IF coll[i].id = oid THEN SetFields(coll[i], request) ELSE coll[i]],
              LAMBDA d : d.id = oid)

FindOneAndUpdate(coll, oid, request) ==
    [i \in 1..Len(coll) |->
        IF coll[i].id = oid THEN SetFields(coll[i], request) ELSE coll[i]]

(***************************************************************************)
(* Tasks.                                                                  *)
(***************************************************************************)
IdleTask ==
    [op |-> "idle", pc |-> "idle",
     request |-> None,                 \* schedule_meeting / add_potential_slot
     start_after |-> None,             \* get_free_slots
     duration_minutes |-> None,
     now |-> 0,                        \* what datetime.now() returns
     seed_i |-> 0,                     \* position in initial_slots_data
     existing_slot_data |-> None,
     inserted_id |-> None,
     current_hour |-> 0,
     suggested_count |-> 0,
     attempts |-> 0,
     available_slots_responses |-> <<>>,
     result |-> None,                  \* the MeetingSlotResponse returned
     path |-> "",                      \* the return or raise statement taken
     failed_at |-> "",                 \* the round-trip that raised, if one did
     from_free_slots |-> FALSE,        \* the window requested is one that the
                                       \* get_free_slots call just before returned
     queries |-> 0]                    \* store round-trips of the tool's body

BodyPc(op) ==
    CASE op = "schedule_meeting" -> "sm_find"
      [] op = "add_potential_slot" -> "aps_insert"
      [] op = "get_free_slots" -> "gfs_list"

\* collection = db[MEETINGS_COLLECTION]: the tool's body starts.
EnterBody(t) ==
    [t EXCEPT !.pc = BodyPc(t.op), !.queries = 0]

\* if db is None: await connect_to_mongo()   (lines 137-138, 24-38): the
\* handles are set before the first await, which is the count_documents
\* of setup_initial_data_if_needed.
Call(p, t) ==
    /\ task[p].pc = "idle"
    /\ IF db = "None"
       THEN /\ mongo_client' = "client"
            /\ db' = "db"
            /\ task' = [task EXCEPT ![p] = [t EXCEPT !.pc = "seed_count"]]
            /\ pre' = pre
       ELSE /\ UNCHANGED <<mongo_client, db>>
            /\ task' = [task EXCEPT ![p] = EnterBody(t)]
            /\ pre' = store
    /\ UNCHANGED <<store, next_oid>>
    /\ UNCHANGED beyondTools

\* SeedCount with a fault: the initial slots are added whatever the count.
SeedCountIgnoresCount(p) ==
    /\ task[p].pc = "seed_count"
    /\ task' = [task EXCEPT ![p].pc = "seed_insert", ![p].seed_i = 1]
    /\ pre' = pre
    /\ UNCHANGED <<mongo_client, db, store, next_oid>>
    /\ UNCHANGED beyondTools

\* current_count = await collection.count_documents({})
SeedCount(p) ==
    /\ task[p].pc = "seed_count"
    /\ IF Len(store) = 0
       THEN /\ task' = [task EXCEPT ![p].pc = "seed_insert", ![p].seed_i = 1]
            /\ pre' = pre
       ELSE /\ task' = [task EXCEPT ![p] = EnterBody(task[p])]
            /\ pre' = store
    /\ UNCHANGED <<mongo_client, db, store, next_oid>>
    /\ UNCHANGED beyondTools

\* await collection.insert_one(db_doc), once per initial slot
SeedInsert(p) ==
    /\ task[p].pc = "seed_insert"
    /\ LET i == task[p].seed_i
           slot == initial_slots_data[i]
           coll == InsertOne(store, MeetingSlotDB(next_oid, slot, slot.booked))
       IN /\ store' = coll
          /\ next_oid' = next_oid + 1
          /\ IF i < Len(initial_slots_data)
             THEN /\ task' = [task EXCEPT ![p].seed_i = i + 1]
                  /\ pre' = pre
             ELSE /\ task' = [task EXCEPT ![p] = EnterBody(task[p])]
                  /\ pre' = coll
    /\ UNCHANGED <<mongo_client, db>>
    /\ UNCHANGED beyondTools

(***************************************************************************)
(* schedule_meeting                                                        *)
(***************************************************************************)
\* Calls that may insert are counted against MaxSlots when they start.
Inserting == {q \in Procs : task[q].op \in {"schedule_meeting", "add_potential_slot"}
                            /\ task[q].pc # "done"}
\* Documents the seeding in progress will still insert.
Seeding ==
    IF \E q \in Procs : task[q].pc = "seed_insert"
    THEN LET q == CHOOSE q \in Procs : task[q].pc = "seed_insert"
         IN  Len(initial_slots_data) - task[q].seed_i + 1
    ELSE IF Len(store) = 0 THEN Len(initial_slots_data) ELSE 0
Room == Len(store) + Seeding + Cardinality(Inserting) < MaxSlots

ScheduleMeeting(p, request) ==
    /\ Room
    /\ Call(p, [IdleTask EXCEPT !.op = "schedule_meeting", !.request = Some(request)])

\* existing_slot_data = await collection.find_one({exact, booked: False})
SmFind(p) ==
    /\ task[p].pc = "sm_find"
    /\ LET request == Get(task[p].request)
           found == FindOneExactUnbooked(store, request.start_time, request.end_time)
       IN IF found # {}
          THEN \E d \in found :
                 task' = [task EXCEPT ![p].existing_slot_data = Some(d),
                                      ![p].pc = "sm_update",
                                      ![p].queries = @ + 1]
          ELSE task' = [task EXCEPT ![p].pc = "sm_overlap", ![p].queries = @ + 1]
    /\ UNCHANGED <<mongo_client, db, store, next_oid, pre>>
    /\ UNCHANGED beyondTools

\* SmUpdate with a fault: when the update finds no document the call goes
\* on to the overlap check.
SmUpdateFallsThrough(p) ==
    /\ task[p].pc = "sm_update"
    /\ LET request == Get(task[p].request)
           oid == Get(task[p].existing_slot_data).id
           coll == FindOneAndUpdate(store, oid, request)
           updated_slot == FindOneById(coll, oid)
       IN IF updated_slot # {}
          THEN /\ store' = coll
               /\ \E d \in updated_slot :
                    task' = [task EXCEPT ![p].result = Some(MeetingSlotResponse(d)),
                                         ![p].path = "reused",
                                         ![p].pc = "done",
                                         ![p].queries = @ + 1]
          ELSE /\ store' = store
               /\ task' = [task EXCEPT ![p].pc = "sm_overlap",
                                       ![p].queries = @ + 1]
    /\ UNCHANGED <<mongo_client, db, next_oid, pre>>
    /\ UNCHANGED beyondTools

\* updated_slot = await collection.find_one_and_update({"_id": ...}, ...)
SmUpdate(p) ==
    /\ task[p].pc = "sm_update"
    /\ LET request == Get(task[p].request)
           oid == Get(task[p].existing_slot_data).id
           coll == FindOneAndUpdate(store, oid, request)
           updated_slot == FindOneById(coll, oid)
       IN IF updated_slot # {}
          THEN /\ store' = coll
               /\ \E d \in updated_slot :
                    task' = [task EXCEPT ![p].result = Some(MeetingSlotResponse(d)),
                                         ![p].path = "reused",
                                         ![p].pc = "done",
                                         ![p].queries = @ + 1]
          ELSE /\ store' = store
               /\ task' = [task EXCEPT ![p].path = "raised_update",
                                       ![p].pc = "done",
                                       ![p].queries = @ + 1]
    /\ UNCHANGED <<mongo_client, db, next_oid, pre>>
    /\ UNCHANGED beyondTools

\* SmOverlap with a fault: the request is stored (unbooked) before the
\* conflict is reported.
SmOverlapStoresRequest(p) ==
    /\ task[p].pc = "sm_overlap"
    /\ LET request == Get(task[p].request)
           found == FindOneOverlap(store, request.start_time, request.end_time)
       IN IF found # {}
          THEN /\ store' = InsertOne(store, MeetingSlotDB(next_oid, request, FALSE))
               /\ next_oid' = next_oid + 1
               /\ \E d \in found :
                    task' = [task EXCEPT ![p].result = Some(ConflictResponse(d)),
                                         ![p].path = "conflict",
                                         ![p].pc = "done",
                                         ![p].queries = @ + 1]
          ELSE /\ UNCHANGED <<store, next_oid>>
               /\ task' = [task EXCEPT ![p].pc = "sm_insert", ![p].queries = @ + 1]
    /\ UNCHANGED <<mongo_client, db, pre>>
    /\ UNCHANGED beyondTools

\* overlapping_meeting = await collection.find_one(overlap_query)
SmOverlap(p) ==
    /\ task[p].pc = "sm_overlap"
    /\ LET request == Get(task[p].request)
           found == FindOneOverlap(store, request.start_time, request.end_time)
       IN IF found # {}
          THEN \E d \in found :
                 task' = [task EXCEPT ![p].result = Some(ConflictResponse(d)),
                                      ![p].path = "conflict",
                                      ![p].pc = "done",
                                      ![p].queries = @ + 1]
          ELSE task' = [task EXCEPT ![p].pc = "sm_insert", ![p].queries = @ + 1]
    /\ UNCHANGED <<mongo_client, db, store, next_oid, pre>>
    /\ UNCHANGED beyondTools

\* result = await collection.insert_one(insert_data)
SmInsert(p) ==
    /\ task[p].pc = "sm_insert"
    /\ store' = InsertOne(store, MeetingSlotDB(next_oid, Get(task[p].request), TRUE))
    /\ next_oid' = next_oid + 1
    /\ task' = [task EXCEPT ![p].inserted_id = Some(next_oid),
                            ![p].pc = "sm_readback",
                            ![p].queries = @ + 1]
    /\ UNCHANGED <<mongo_client, db, pre>>
    /\ UNCHANGED beyondTools

\* created_meeting_data = await collection.find_one({"_id": result.inserted_id})
SmReadback(p) ==
    /\ task[p].pc = "sm_readback"
    /\ LET found == FindOneById(store, Get(task[p].inserted_id))
       IN IF found # {}
          THEN \E d \in found :
                 task' = [task EXCEPT ![p].result = Some(MeetingSlotResponse(d)),
                                      ![p].path = "created",
                                      ![p].pc = "done",
                                      ![p].queries = @ + 1]
          ELSE task' = [task EXCEPT ![p].path = "raised_readback",
                                    ![p].pc = "done",
                                    ![p].queries = @ + 1]
    /\ UNCHANGED <<mongo_client, db, store, next_oid, pre>>
    /\ UNCHANGED beyondTools

(***************************************************************************)
(* add_potential_slot                                                      *)
(***************************************************************************)
AddPotentialSlot(p, slot_data) ==
    /\ Room
    /\ Call(p, [IdleTask EXCEPT !.op = "add_potential_slot",
                                !.request = Some(slot_data)])

\* ApsInsert with a fault: a window that a booked slot overlaps is refused.
ApsInsertChecksOverlap(p) ==
    /\ task[p].pc = "aps_insert"
    /\ LET slot_data == Get(task[p].request)
           found == FindOneOverlap(store, slot_data.start_time, slot_data.end_time)
       IN IF found # {}
          THEN /\ UNCHANGED <<store, next_oid>>
               /\ \E d \in found :
                    task' = [task EXCEPT ![p].result = Some(ConflictResponse(d)),
                                         ![p].path = "conflict",
                                         ![p].pc = "done",
                                         ![p].queries = @ + 1]
          ELSE /\ store' = InsertOne(store, MeetingSlotDB(next_oid, slot_data, FALSE))
               /\ next_oid' = next_oid + 1
               /\ task' = [task EXCEPT ![p].inserted_id = Some(next_oid),
                                       ![p].pc = "aps_readback",
                                       ![p].queries = @ + 1]
    /\ UNCHANGED <<mongo_client, db, pre>>
    /\ UNCHANGED beyondTools

\* result = await collection.insert_one(insert_data)
ApsInsert(p) ==
    /\ task[p].pc = "aps_insert"
    /\ store' = InsertOne(store, MeetingSlotDB(next_oid, Get(task[p].request), FALSE))
    /\ next_oid' = next_oid + 1
    /\ task' = [task EXCEPT ![p].inserted_id = Some(next_oid),
                            ![p].pc = "aps_readback",
                            ![p].queries = @ + 1]
    /\ UNCHANGED <<mongo_client, db, pre>>
    /\ UNCHANGED beyondTools

\* created_slot_data = await collection.find_one({"_id": result.inserted_id})
ApsReadback(p) ==
    /\ task[p].pc = "aps_readback"
    /\ LET found == FindOneById(store, Get(task[p].inserted_id))
       IN IF found # {}
          THEN \E d \in found :
                 task' = [task EXCEPT ![p].result = Some(MeetingSlotResponse(d)),
                                      ![p].path = "added",
                                      ![p].pc = "done",
                                      ![p].queries = @ + 1]
          ELSE task' = [task EXCEPT ![p].path = "raised_readback",
                                    ![p].pc = "done",
                                    ![p].queries = @ + 1]
    /\ UNCHANGED <<mongo_client, db, store, next_oid, pre>>
    /\ UNCHANGED beyondTools

(***************************************************************************)
(* get_free_slots                                                          *)
(***************************************************************************)
max_attempts == 20

\* FreeQuery with a fault: the booked flag is not part of the query.
FreeQueryIgnoresBooked(doc, start_after) ==
    start_after # None => doc.start_time >= Get(start_after)

\* query = {"booked": False}; if start_after: query["start_time"] = {"$gte": ...}
FreeQuery(doc, start_after) ==
    /\ doc.booked = FALSE
    /\ start_after # None => doc.start_time >= Get(start_after)

\* SortStartTime with a fault: the cursor is not sorted.
RECURSIVE Unsorted(_)
Unsorted(S) ==
    IF S = {} THEN {<<>>}
    ELSE UNION {{<<d>> \o rest : rest \in Unsorted(S \ {d})} : d \in S}

\* collection.find(query).sort("start_time"): the orders the cursor may yield
\* the documents of S in; documents with equal start_time come in any order.
RECURSIVE SortStartTime(_)
SortStartTime(S) ==
    IF S = {} THEN {<<>>}
    ELSE UNION {{<<d>> \o rest : rest \in SortStartTime(S \ {d})} :
                  d \in {x \in S : \A y \in S : x.start_time <= y.start_time}}

\* collection.find(query).sort("start_time")
Find(coll, start_after) ==
    SortStartTime({d \in Docs(coll) : FreeQuery(d, start_after)})

\* duration_minutes or 30
DurationOrDefault(duration_minutes) ==
    IF duration_minutes = None THEN 30
    ELSE IF Get(duration_minutes) = 0 THEN 30 ELSE Get(duration_minutes)

\* now.replace(minute=0, second=0, microsecond=0), plus one hour if now.minute > 0
CurrentHour(now) ==
    IF MinuteOf(now) > 0
    THEN ReplaceMinuteSecondZero(now) + TimedeltaHours(1)
    ELSE ReplaceMinuteSecondZero(now)

\* LoopCondition with a fault: attempts <= max_attempts.
LoopConditionInclusive(suggested_count, attempts) ==
    suggested_count < 5 /\ attempts <= max_attempts

\* while suggested_count < 5 and attempts < max_attempts
LoopCondition(suggested_count, attempts) ==
    suggested_count < 5 /\ attempts < max_attempts

\* args: start_after, duration_minutes, and clock, the value datetime.now()
\* returns should the call read it.
GetFreeSlots(p, args) ==
    Call(p, [IdleTask EXCEPT !.op = "get_free_slots",
                             !.start_after = args.start_after,
                             !.duration_minutes = args.duration_minutes,
                             !.now = args.clock])

\* async for slot_data in collection.find(query).sort("start_time"), then
\* the start of the synthesis when nothing was listed.
GfsList(p) ==
    /\ task[p].pc = "gfs_list"
    /\ \E cursor \in Find(store, task[p].start_after) :
         LET responses == [i \in 1..Len(cursor) |->
                              FreeSlotResponse(cursor[i].start_time, cursor[i].end_time)]
             now == IF task[p].start_after # None
                    THEN Get(task[p].start_after) ELSE task[p].now
         IN IF responses # <<>>
            THEN task' = [task EXCEPT ![p].available_slots_responses = responses,
                                      ![p].path = "stored",
                                      ![p].pc = "done",
                                      ![p].queries = @ + 1]
            ELSE task' = [task EXCEPT ![p].now = now,
                                      ![p].current_hour = CurrentHour(now),
                                      ![p].suggested_count = 0,
                                      ![p].attempts = 0,
                                      ![p].pc = "gfs_check",
                                      ![p].queries = @ + 1]
    /\ UNCHANGED <<mongo_client, db, store, next_oid, pre>>
    /\ UNCHANGED beyondTools

\* GfsCheck with a fault: attempts advances only past a rejected candidate.
GfsCheckAttemptsOnReject(p) ==
    /\ task[p].pc = "gfs_check"
    /\ LET t == task[p]
           slot_start == t.current_hour + TimedeltaHours(t.attempts)
           slot_end == slot_start + TimedeltaMinutes(DurationOrDefault(t.duration_minutes))
           overlapping_meeting == FindOneOverlap(store, slot_start, slot_end)
           accepted == overlapping_meeting = {}
           responses == IF accepted
                        THEN Append(t.available_slots_responses,
                                    FreeSlotResponse(slot_start, slot_end))
                        ELSE t.available_slots_responses
           count == IF accepted THEN t.suggested_count + 1 ELSE t.suggested_count
           tried == IF accepted THEN t.attempts ELSE t.attempts + 1
           again == LoopCondition(count, tried)
       IN task' = [task EXCEPT ![p].available_slots_responses = responses,
                               ![p].suggested_count = count,
                               ![p].attempts = tried,
                               ![p].queries = @ + 1,
                               ![p].path = IF again THEN "" ELSE "synthesized",
                               ![p].pc = IF again THEN "gfs_check" ELSE "done"]
    /\ UNCHANGED <<mongo_client, db, store, next_oid, pre>>
    /\ UNCHANGED beyondTools

\* GfsCheck with a fault: an accepted candidate is stored as an unbooked
\* slot.
GfsCheckPersistsAccepted(p) ==
    /\ task[p].pc = "gfs_check"
    /\ LET t == task[p]
           slot_start == t.current_hour + TimedeltaHours(t.attempts)
           slot_end == slot_start + TimedeltaMinutes(DurationOrDefault(t.duration_minutes))
           overlapping_meeting == FindOneOverlap(store, slot_start, slot_end)
           accepted == overlapping_meeting = {}
           responses == IF accepted
                        THEN Append(t.available_slots_responses,
                                    FreeSlotResponse(slot_start, slot_end))
                        ELSE t.available_slots_responses
           count == IF accepted THEN t.suggested_count + 1 ELSE t.suggested_count
           again == LoopCondition(count, t.attempts + 1)
       IN /\ task' = [task EXCEPT ![p].available_slots_responses = responses,
                                  ![p].suggested_count = count,
                                  ![p].attempts = t.attempts + 1,
                                  ![p].queries = @ + 1,
                                  ![p].path = IF again THEN "" ELSE "synthesized",
                                  ![p].pc = IF again THEN "gfs_check" ELSE "done"]
          /\ IF accepted /\ Len(store) < MaxSlots
             THEN /\ store' = InsertOne(store,
                          MeetingSlotDB(next_oid,
                              [title |-> "Free", description |-> "",
                               name |-> "", phone_number |-> "",
                               start_time |-> slot_start,
                               end_time |-> slot_end], FALSE))
                  /\ next_oid' = next_oid + 1
             ELSE UNCHANGED <<store, next_oid>>
    /\ UNCHANGED <<mongo_client, db, pre>>
    /\ UNCHANGED beyondTools

\* GfsCheck with a fault: the candidates are half an hour apart.
GfsCheckHalfHourSteps(p) ==
    /\ task[p].pc = "gfs_check"
    /\ LET t == task[p]
           slot_start == t.current_hour + TimedeltaMinutes(30 * t.attempts)
           slot_end == slot_start + TimedeltaMinutes(DurationOrDefault(t.duration_minutes))
           overlapping_meeting == FindOneOverlap(store, slot_start, slot_end)
           accepted == overlapping_meeting = {}
           responses == IF accepted
                        THEN Append(t.available_slots_responses,
                                    FreeSlotResponse(slot_start, slot_end))
                        ELSE t.available_slots_responses
           count == IF accepted THEN t.suggested_count + 1 ELSE t.suggested_count
           again == LoopCondition(count, t.attempts + 1)
       IN task' = [task EXCEPT ![p].available_slots_responses = responses,
                               ![p].suggested_count = count,
                               ![p].attempts = t.attempts + 1,
                               ![p].queries = @ + 1,
                               ![p].path = IF again THEN "" ELSE "synthesized",
                               ![p].pc = IF again THEN "gfs_check" ELSE "done"]
    /\ UNCHANGED <<mongo_client, db, store, next_oid, pre>>
    /\ UNCHANGED beyondTools

\* One iteration of the while loop: one find_one(overlap_query).
GfsCheck(p) ==
    /\ task[p].pc = "gfs_check"
    /\ LET t == task[p]
           slot_start == t.current_hour + TimedeltaHours(t.attempts)
           slot_end == slot_start + TimedeltaMinutes(DurationOrDefault(t.duration_minutes))
           overlapping_meeting == FindOneOverlap(store, slot_start, slot_end)
           accepted == overlapping_meeting = {}
           responses == IF accepted
                        THEN Append(t.available_slots_responses,
                                    FreeSlotResponse(slot_start, slot_end))
                        ELSE t.available_slots_responses
           count == IF accepted THEN t.suggested_count + 1 ELSE t.suggested_count
           again == LoopCondition(count, t.attempts + 1)
       IN task' = [task EXCEPT ![p].available_slots_responses = responses,
                               ![p].suggested_count = count,
                               ![p].attempts = t.attempts + 1,
                               ![p].queries = @ + 1,
                               ![p].path = IF again THEN "" ELSE "synthesized",
                               ![p].pc = IF again THEN "gfs_check" ELSE "done"]
    /\ UNCHANGED <<mongo_client, db, store, next_oid, pre>>
    /\ UNCHANGED beyondTools

\* The awaits of a tool's body that go to the store.
StoreRoundTrips ==
    {"sm_find", "sm_update", "sm_overlap", "sm_insert", "sm_readback",
     "aps_insert", "aps_readback", "gfs_list", "gfs_check"}

\* The store is unreachable at the next round-trip of the tool's body: the
\* driver raises out of the await, the operation is not applied, and the
\* tool, which catches nothing, ends with that exception.
StoreFails(p) ==
    /\ task[p].pc \in StoreRoundTrips
    /\ task' = [task EXCEPT ![p].path = "raised_connection",
                            ![p].failed_at = task[p].pc,
                            ![p].pc = "done"]
    /\ UNCHANGED <<mongo_client, db, store, next_oid, pre>>
    /\ UNCHANGED beyondTools

\* The response (or the exception) has been delivered: the task ends.
Return(p) ==
    /\ task[p].pc = "done"
    /\ task' = [task EXCEPT ![p] = IdleTask]
    /\ UNCHANGED <<mongo_client, db, store, next_oid, pre>>
    /\ UNCHANGED beyondTools

(***************************************************************************)
(* Inputs.                                                                 *)
(***************************************************************************)
Caller(n) ==
    [title |-> "Demo", description |-> "Product demo",
     name |-> IF n = 1 THEN "Ann" ELSE "Bob",
     phone_number |-> IF n = 1 THEN "555-0001" ELSE "555-0002"]

Request(n, w) ==
    [title |-> Caller(n).title, description |-> Caller(n).description,
     name |-> Caller(n).name, phone_number |-> Caller(n).phone_number,
     start_time |-> w[1], end_time |-> w[2]]

Args(start_after, duration_minutes, clock) ==
    [start_after |-> start_after, duration_minutes |-> duration_minutes,
     clock |-> clock]

\* Concurrent calls: task p speaks for caller p.  Both ask for the seeded
\* unbooked 09:00 slot; their other windows, 12:00-12:30 and 12:15-12:45,
\* overlap each other.
ScheduleRequests(p) ==
    {Request(IF p = 1 THEN 1 ELSE 2, w) :
        w \in {<<At(9, 0), At(9, 30)>>,
               IF p = 1 THEN <<At(12, 0), At(12, 30)>>
                        ELSE <<At(12, 15), At(12, 45)>>}}

PotentialSlots(p) ==
    {Request(IF p = 1 THEN 1 ELSE 2, w) : w \in {<<At(12, 0), At(12, 30)>>}}

FreeSlotsArgs ==
    {Args(Some(At(11, 30)), None, 0)}

\* Calls made one at a time.
SeqScheduleRequests ==
    {Request(n, w) :
        n \in {1, 2},
        w \in {<<At(9, 0), At(9, 30)>>, <<At(9, 0), At(10, 0)>>,
               <<At(10, 15), At(10, 45)>>, <<At(11, 0), At(11, 30)>>,
               <<At(12, 0), At(12, 30)>>, <<At(12, 0), At(32, 0)>>}}

SeqPotentialSlots ==
    {Request(n, w) :
        n \in {2},
        w \in {<<At(10, 15), At(10, 45)>>, <<At(9, 0), At(9, 30)>>}}

SeqFreeSlotsArgs ==
    {Args(None, None, At(9, 20)),
     Args(Some(At(9, 0)), Some(60), 0),
     Args(Some(At(10, 0)), None, 0),
     Args(Some(At(12, 0)), Some(0), 0),
     Args(Some(At(12, 0)), Some(-30), 0),
     Args(Some(At(15, 30)), Some(90), 0),
     Args(Some(At(12, 0) + 30), None, 0)}

(***************************************************************************)
(* The components beside the tools, before anything has used them.         *)
(***************************************************************************)
\* A2A tasks the executors are asked to work on.
NumA2ATasks == 2
A2ATasks == 1..NumA2ATasks

\* A dict with no key.
EmptyDict == <<>>

\* No pair of intervals has been put to the overlap test.
ProbeAtRest == probe = None

\* SessionThreadMapper.__init__
MapperAtRest ==
    /\ session_to_thread = EmptyDict
    /\ thread_to_session = EmptyDict
    /\ mapper_log = <<>>

\* No request has reached an executor.
ExecutorsAtRest ==
    /\ a2a_task = [k \in A2ATasks |-> [pc |-> "idle", cancels |-> 0]]
    /\ event_queue = [k \in A2ATasks |-> <<>>]

\* Threads that call get_session_mapper and reset_session_mapper.
NumThreads == 2
Threads == 1..NumThreads

IdleCaller == [op |-> "idle", pc |-> "idle", result |-> None]

\* _session_mapper_instance = None, _instance_lock = threading.Lock()
SingletonAtRest ==
    /\ session_mapper_instance = None
    /\ instance_lock = None
    /\ caller = [th \in Threads |-> IdleCaller]
    /\ resets = [started |-> 0, effected |-> 0]
    /\ created = <<>>

(***************************************************************************)
(* Specifications.                                                         *)
(***************************************************************************)
\* The collection an earlier run of the server has seeded.
SeededStore ==
    [i \in 1..Len(initial_slots_data) |->
        MeetingSlotDB(i, initial_slots_data[i], initial_slots_data[i].booked)]

\* The server starts with no connection, on an empty collection or on one
\* that an earlier run has seeded.
Init ==
    /\ mongo_client = "None"
    /\ db = "None"
    /\ store \in {<<>>, SeededStore}
    /\ pre = store
    /\ next_oid = Len(store) + 1
    /\ task = [p \in Procs |-> IdleTask]
    /\ ProbeAtRest
    /\ MapperAtRest
    /\ ExecutorsAtRest
    /\ SingletonAtRest

TaskStep(p) ==
    \/ SeedCount(p)
    \/ SeedInsert(p)
    \/ SmFind(p)
    \/ SmUpdate(p)
    \/ SmOverlap(p)
    \/ SmInsert(p)
    \/ SmReadback(p)
    \/ ApsInsert(p)
    \/ ApsReadback(p)
    \/ GfsList(p)
    \/ GfsCheck(p)
    \/ Return(p)

\* Tool calls as the server runs them: concurrent tasks, interleaved at the
\* store round-trips.
Next ==
    \E p \in Procs :
        \/ \E r \in ScheduleRequests(p) : ScheduleMeeting(p, r)
        \/ \E s \in PotentialSlots(p) : AddPotentialSlot(p, s)
        \/ \E a \in FreeSlotsArgs : GetFreeSlots(p, a)
        \/ TaskStep(p)

Spec == Init /\ [][Next]_vars

\* Tool calls made one at a time: each call returns before the next starts.
\* Which task makes them makes no difference, so one task makes them all.
SeqTask == CHOOSE p \in Procs : TRUE

NextSeq ==
    \/ \E r \in SeqScheduleRequests : ScheduleMeeting(SeqTask, r)
    \/ \E s \in SeqPotentialSlots : AddPotentialSlot(SeqTask, s)
    \/ \E a \in SeqFreeSlotsArgs : GetFreeSlots(SeqTask, a)
    \/ TaskStep(SeqTask)

SpecSeq == Init /\ [][NextSeq]_vars

\* The caller of a get_free_slots call that has returned slots asks, with
\* nothing in between, for one of them: schedule_meeting with the slot's
\* start_time and end_time.  The connection exists, so the call is at its
\* body at once.
BookReturnedSlot(p, n) ==
    /\ Room
    /\ task[p].op = "get_free_slots"
    /\ task[p].pc = "done"
    /\ db # "None"
    /\ \E i \in 1..Len(task[p].available_slots_responses) :
         LET slot == task[p].available_slots_responses[i]
             request == Request(n, <<slot.start_time, slot.end_time>>)
         IN  task' = [task EXCEPT ![p] =
                 EnterBody([IdleTask EXCEPT !.op = "schedule_meeting",
                                            !.request = Some(request),
                                            !.from_free_slots = TRUE])]
    /\ pre' = store
    /\ UNCHANGED <<mongo_client, db, store, next_oid>>
    /\ UNCHANGED beyondTools

\* Tool calls made one at a time, where a caller may book a slot that
\* get_free_slots has just returned.
BookScheduleRequests ==
    {Request(1, w) :
        w \in {<<At(9, 0), At(9, 30)>>, <<At(12, 0), At(32, 0)>>}}

BookPotentialSlots ==
    {Request(1, <<At(10, 15), At(10, 45)>>)}

BookFreeSlotsArgs ==
    {Args(Some(At(9, 0)), Some(60), 0),
     Args(Some(At(12, 0)), Some(-30), 0),
     Args(Some(At(15, 30)), Some(90), 0),
     Args(Some(At(12, 0) + 30), None, 0)}

NextBook ==
    \/ \E r \in BookScheduleRequests : ScheduleMeeting(SeqTask, r)
    \/ \E s \in BookPotentialSlots : AddPotentialSlot(SeqTask, s)
    \/ \E a \in BookFreeSlotsArgs : GetFreeSlots(SeqTask, a)
    \/ TaskStep(SeqTask)
    \/ BookReturnedSlot(SeqTask, 2)

SpecBook == Init /\ [][NextBook]_vars

\* Tool calls made one at a time against a store that may become
\* unreachable at any round-trip.
NextFail ==
    \/ NextSeq
    \/ StoreFails(SeqTask)

SpecFail == Init /\ [][NextFail]_vars

\* Another client of the database deletes a document while a
\* schedule_meeting call is between its exact lookup and its update.  (The
\* tools themselves delete nothing.)  Only while few identifiers have been
\* issued, to keep next_oid bounded.
ExternalDelete ==
    /\ task[SeqTask].pc = "sm_update"
    /\ next_oid <= MaxSlots
    /\ \E i \in 1..Len(store) :
         store' = SelectSeq(store, LAMBDA d : d.id # store[i].id)
    /\ UNCHANGED <<mongo_client, db, next_oid, task, pre>>
    /\ UNCHANGED beyondTools

\* Tool calls made one at a time, with the inputs of one of the concurrent
\* callers, on a collection that another client may delete from.
NextDel ==
    \/ \E r \in ScheduleRequests(SeqTask) : ScheduleMeeting(SeqTask, r)
    \/ \E s \in PotentialSlots(SeqTask) : AddPotentialSlot(SeqTask, s)
    \/ \E a \in FreeSlotsArgs : GetFreeSlots(SeqTask, a)
    \/ TaskStep(SeqTask)
    \/ ExternalDelete

SpecDel == Init /\ [][NextDel]_vars

(***************************************************************************)
(* The overlap test on its own: overlap_query of schedule_meeting and of   *)
(* get_free_slots, put to one stored booked slot and one requested window. *)
(***************************************************************************)
\* Interval endpoints are drawn from 0 .. MaxTime.
MaxTime == 4

Intervals == {w \in (0..MaxTime) \X (0..MaxTime) : w[1] < w[2]}

\* A booked slot of the collection with the window w.
BookedSlot(w) == MeetingSlotDB(0, Request(1, w), TRUE)

\* The server before its first tool call, on an empty collection.
ToolsAtRest ==
    /\ mongo_client = "None"
    /\ db = "None"
    /\ store = <<>>
    /\ pre = <<>>
    /\ next_oid = 1
    /\ task = [p \in Procs |-> IdleTask]

InitOverlap ==
    /\ ToolsAtRest
    /\ MapperAtRest
    /\ ExecutorsAtRest
    /\ SingletonAtRest
    /\ probe \in {Some([stored |-> a, requested |-> b,
                        flagged |-> None, swapped |-> None]) :
                     a \in Intervals, b \in Intervals}

\* find_one(overlap_query) over a collection that holds the one booked slot:
\* flagged is whether the stored slot matches the query of the requested
\* window, swapped the same with the two windows exchanged.
OverlapTest ==
    /\ probe # None
    /\ Get(probe).flagged = None
    /\ LET stored == Get(probe).stored
           requested == Get(probe).requested
       IN probe' = Some([Get(probe) EXCEPT
             !.flagged = Some(FindOneOverlap(<<BookedSlot(stored)>>,
                                             requested[1], requested[2]) # {}),
             !.swapped = Some(FindOneOverlap(<<BookedSlot(requested)>>,
                                             stored[1], stored[2]) # {})])
    /\ UNCHANGED <<toolVars, mapperVars, executorVars, singletonVars>>

NextOverlap == OverlapTest

SpecOverlap == InitOverlap /\ [][NextOverlap]_vars

(***************************************************************************)
(* SessionThreadMapper (src/common/session_thread_mapper.py).  Every       *)
(* method holds self._lock for its whole body, so a call is one step.      *)
(***************************************************************************)
\* Calls recorded in mapper_log.
MaxCalls == 4

UserIds == {"ann", "ann:x"}
SessionIds == {"s1", "x:s1"}

\* dict[key] = value, and del dict[key]
Put(dict, key, value) ==
    [x \in DOMAIN dict \cup {key} |-> IF x = key THEN value ELSE dict[x]]
Del(dict, key) == [x \in DOMAIN dict \ {key} |-> dict[x]]

\* f"{user_id}:{session_id}"
Combined(user_id, session_id) == user_id \o ":" \o session_id

\* hashlib.sha256(combined.encode()).hexdigest()[:16], for the strings the
\* model digests.
Sha256Hex16(combined) ==
    CASE combined = "ann:s1" -> "3a2ace8887c28350"
      [] combined = "ann:x:s1" -> "4edfc047f577c843"
      [] combined = "ann:x:x:s1" -> "3f5f6fb334f3d7b7"
      [] combined = "default_user:ctx1" -> "ff6402f50fe178aa"
      [] combined = "default_user:ctx2" -> "c9e2d04801f0d735"
      [] combined = "default_user:ctx3" -> "0f5ba7baf706c83c"
      [] combined = "default_user:ctx4" -> "6d31f371d6218e3f"
      [] combined = "default_user:default_session" -> "04bcdbbabc553c9a"

\* _generate_thread_id with a fault: the id is drawn from a counter.
GenerateThreadIdFromCounter(user_id, session_id) ==
    "thread_" \o ToString(Len(mapper_log))

\* _generate_thread_id
GenerateThreadId(user_id, session_id) ==
    "thread_" \o Sha256Hex16(Combined(user_id, session_id))

\* What get_thread_id returns.
ThreadIdFor(user_id, session_id) ==
    LET session_key == <<user_id, session_id>>
    IN  IF session_key \in DOMAIN session_to_thread
        THEN session_to_thread[session_key]
        ELSE GenerateThreadId(user_id, session_id)

\* get_thread_id(user_id, session_id)
GetThreadId(user_id, session_id) ==
    LET session_key == <<user_id, session_id>>
        thread_id == ThreadIdFor(user_id, session_id)
    IN  /\ IF session_key \in DOMAIN session_to_thread
           THEN UNCHANGED <<session_to_thread, thread_to_session>>
           ELSE /\ session_to_thread' = Put(session_to_thread, session_key, thread_id)
                /\ thread_to_session' = Put(thread_to_session, thread_id, session_key)
        /\ mapper_log' = Append(mapper_log,
               [op |-> "get_thread_id", key |-> session_key,
                result |-> thread_id])

\* clear_session(user_id, session_id): True, False, or the KeyError of the
\* second del when the thread id is no longer a key of _thread_to_session
\* (the first del has then been done).
ClearSession(user_id, session_id) ==
    LET session_key == <<user_id, session_id>>
    IN  IF session_key \in DOMAIN session_to_thread
        THEN LET thread_id == session_to_thread[session_key]
             IN  /\ session_to_thread' = Del(session_to_thread, session_key)
                 /\ thread_to_session' = Del(thread_to_session, thread_id)
                 /\ mapper_log' = Append(mapper_log,
                        [op |-> "clear_session", key |-> session_key,
                         result |-> IF thread_id \in DOMAIN thread_to_session
                                    THEN "True" ELSE "KeyError"])
        ELSE /\ UNCHANGED <<session_to_thread, thread_to_session>>
             /\ mapper_log' = Append(mapper_log,
                    [op |-> "clear_session", key |-> session_key,
                     result |-> "False"])

\* clear_all()
ClearAll ==
    /\ session_to_thread' = EmptyDict
    /\ thread_to_session' = EmptyDict
    /\ mapper_log' = Append(mapper_log,
           [op |-> "clear_all", key |-> <<>>, result |-> "None"])

\* get_session_info(thread_id): self._thread_to_session.get(thread_id), the
\* pair or None; the tables are left as they are.
GetSessionInfo(thread_id) ==
    /\ UNCHANGED <<session_to_thread, thread_to_session>>
    /\ mapper_log' = Append(mapper_log,
           [op |-> "get_session_info", arg |-> thread_id, key |-> <<>>,
            result |-> IF thread_id \in DOMAIN thread_to_session
                       THEN Some(thread_to_session[thread_id]) ELSE None])

\* The thread ids get_session_info is asked about: those of the pairs, and
\* one that no pair has.
ThreadIds ==
    {GenerateThreadId(u, n) : u \in UserIds, n \in SessionIds}
        \cup {"thread_0000000000000000"}

\* A call made on the mapper from outside the executors.
CallGetThreadId(user_id, session_id) ==
    /\ Len(mapper_log) < MaxCalls
    /\ GetThreadId(user_id, session_id)
    /\ UNCHANGED <<singletonVars, toolVars, probe, executorVars>>

CallClearSession(user_id, session_id) ==
    /\ Len(mapper_log) < MaxCalls
    /\ ClearSession(user_id, session_id)
    /\ UNCHANGED <<singletonVars, toolVars, probe, executorVars>>

CallClearAll ==
    /\ Len(mapper_log) < MaxCalls
    /\ ClearAll
    /\ UNCHANGED <<singletonVars, toolVars, probe, executorVars>>

CallGetSessionInfo(thread_id) ==
    /\ Len(mapper_log) < MaxCalls
    /\ GetSessionInfo(thread_id)
    /\ UNCHANGED <<singletonVars, toolVars, probe, executorVars>>

\* The calls any thread of the process may make on the mapper.
NextMapper ==
    \/ \E u \in UserIds, n \in SessionIds : CallGetThreadId(u, n)
    \/ \E t \in ThreadIds : CallGetSessionInfo(t)
    \/ \E u \in UserIds, n \in SessionIds : CallClearSession(u, n)
    \/ CallClearAll

InitMapper ==
    /\ ToolsAtRest
    /\ ProbeAtRest
    /\ MapperAtRest
    /\ ExecutorsAtRest
    /\ SingletonAtRest

SpecMapper == InitMapper /\ [][NextMapper]_vars

(***************************************************************************)
(* The singleton: get_session_mapper and reset_session_mapper              *)
(* (src/common/session_thread_mapper.py, lines 116-145), called from       *)
(* threads.  A thread can be preempted between any two reads or writes of  *)
(* the global, so each is a step; only _instance_lock excludes.            *)
(***************************************************************************)
\* reset_session_mapper calls that are started.
MaxResets == 2

SetCaller(th, pc) == caller' = [caller EXCEPT ![th].pc = pc]

\* A thread calls get_session_mapper().
GetSessionMapper(th) ==
    /\ caller[th].pc = "idle"
    /\ caller' = [caller EXCEPT ![th] =
                     [op |-> "get_session_mapper", pc |-> "g_check", result |-> None]]
    /\ UNCHANGED <<session_mapper_instance, instance_lock, resets, created>>
    /\ UNCHANGED <<toolVars, probe, mapperVars, executorVars>>

\* if _session_mapper_instance is None:   (line 130, outside the lock)
GsmCheck(th) ==
    /\ caller[th].pc = "g_check"
    /\ SetCaller(th, IF session_mapper_instance = None THEN "g_acquire" ELSE "g_return")
    /\ UNCHANGED <<session_mapper_instance, instance_lock, resets, created>>
    /\ UNCHANGED <<toolVars, probe, mapperVars, executorVars>>

\* with _instance_lock:   (line 131)
GsmAcquire(th) ==
    /\ caller[th].pc = "g_acquire"
    /\ instance_lock = None
    /\ instance_lock' = Some(th)
    /\ SetCaller(th, "g_recheck")
    /\ UNCHANGED <<session_mapper_instance, resets, created>>
    /\ UNCHANGED <<toolVars, probe, mapperVars, executorVars>>

\* if _session_mapper_instance is None:
\*     _session_mapper_instance = SessionThreadMapper()   (lines 132-133)
GsmRecheck(th) ==
    /\ caller[th].pc = "g_recheck"
    /\ IF session_mapper_instance = None
       THEN /\ session_mapper_instance' = Some(Len(created) + 1)
            /\ created' = Append(created, resets.effected)
       ELSE UNCHANGED <<session_mapper_instance, created>>
    /\ SetCaller(th, "g_release")
    /\ UNCHANGED <<instance_lock, resets>>
    /\ UNCHANGED <<toolVars, probe, mapperVars, executorVars>>

\* the end of the with block
GsmRelease(th) ==
    /\ caller[th].pc = "g_release"
    /\ instance_lock' = None
    /\ SetCaller(th, "g_return")
    /\ UNCHANGED <<session_mapper_instance, resets, created>>
    /\ UNCHANGED <<toolVars, probe, mapperVars, executorVars>>

\* return _session_mapper_instance   (line 135, outside the lock)
GsmReturn(th) ==
    /\ caller[th].pc = "g_return"
    /\ caller' = [caller EXCEPT ![th].pc = "done",
                                ![th].result = Some(session_mapper_instance)]
    /\ UNCHANGED <<session_mapper_instance, instance_lock, resets, created>>
    /\ UNCHANGED <<toolVars, probe, mapperVars, executorVars>>

\* A thread calls reset_session_mapper().
ResetSessionMapper(th) ==
    /\ caller[th].pc = "idle"
    /\ resets.started < MaxResets
    /\ resets' = [resets EXCEPT !.started = @ + 1]
    /\ caller' = [caller EXCEPT ![th] =
                     [op |-> "reset_session_mapper", pc |-> "r_acquire", result |-> None]]
    /\ UNCHANGED <<session_mapper_instance, instance_lock, created>>
    /\ UNCHANGED <<toolVars, probe, mapperVars, executorVars>>

\* with _instance_lock:   (line 142)
RsmAcquire(th) ==
    /\ caller[th].pc = "r_acquire"
    /\ instance_lock = None
    /\ instance_lock' = Some(th)
    /\ SetCaller(th, "r_clear")
    /\ UNCHANGED <<session_mapper_instance, resets, created>>
    /\ UNCHANGED <<toolVars, probe, mapperVars, executorVars>>

\* if _session_mapper_instance is not None:
\*     _session_mapper_instance.clear_all()   (lines 143-144)
RsmClear(th) ==
    /\ caller[th].pc = "r_clear"
    /\ IF session_mapper_instance # None
       THEN ClearAll
       ELSE UNCHANGED mapperVars
    /\ SetCaller(th, "r_assign")
    /\ UNCHANGED <<session_mapper_instance, instance_lock, resets, created>>
    /\ UNCHANGED <<toolVars, probe, executorVars>>

\* _session_mapper_instance = None   (line 145): the reset takes effect
RsmAssign(th) ==
    /\ caller[th].pc = "r_assign"
    /\ session_mapper_instance' = None
    /\ resets' = [resets EXCEPT !.effected = @ + 1]
    /\ SetCaller(th, "r_release")
    /\ UNCHANGED <<instance_lock, created>>
    /\ UNCHANGED <<toolVars, probe, mapperVars, executorVars>>

\* the end of the with block; the function returns None
RsmRelease(th) ==
    /\ caller[th].pc = "r_release"
    /\ instance_lock' = None
    /\ SetCaller(th, "done")
    /\ UNCHANGED <<session_mapper_instance, resets, created>>
    /\ UNCHANGED <<toolVars, probe, mapperVars, executorVars>>

\* The caller has its answer and goes on.
CallerReturns(th) ==
    /\ caller[th].pc = "done"
    /\ caller' = [caller EXCEPT ![th] = IdleCaller]
    /\ UNCHANGED <<session_mapper_instance, instance_lock, resets, created>>
    /\ UNCHANGED <<toolVars, probe, mapperVars, executorVars>>

InitSingleton ==
    /\ ToolsAtRest
    /\ ProbeAtRest
    /\ MapperAtRest
    /\ ExecutorsAtRest
    /\ SingletonAtRest

NextSingleton ==
    \E th \in Threads :
        \/ GetSessionMapper(th)
        \/ GsmCheck(th)
        \/ GsmAcquire(th)
        \/ GsmRecheck(th)
        \/ GsmRelease(th)
        \/ GsmReturn(th)
        \/ ResetSessionMapper(th)
        \/ RsmAcquire(th)
        \/ RsmClear(th)
        \/ RsmAssign(th)
        \/ RsmRelease(th)
        \/ CallerReturns(th)

SpecSingleton == InitSingleton /\ [][NextSingleton]_vars

(***************************************************************************)
(* The agent executors: LangGraphAgentExecutor                             *)
(* (src/common/langgraph_agent_executor.py) and SupportAgentExecutor       *)
(* (src/support_agent/agent_executor.py).  a2a_task[k].pc is the await     *)
(* that execute has reached for task k, cancels the cancel requests        *)
(* handled for it; event_queue[k] is what has been published for it.       *)
(***************************************************************************)
\* Cancel requests per A2A task.
MaxCancels == 1
\* Events that execute publishes per A2A task: a request is handed to
\* execute only while the events one execute may publish still fit.
MaxEvents == 4
\* submit, start_work, add_artifact, complete
EventsPerExecute == 4

\* Odd tasks are served by a LangGraphAgentExecutor, even ones by a
\* SupportAgentExecutor.
ExecutorOf(k) ==
    IF k % 2 = 1 THEN "LangGraphAgentExecutor" ELSE "SupportAgentExecutor"

\* context.context_id
ContextId(k) == "ctx" \o ToString(k)

\* TaskStatusUpdateEvent, as TaskUpdater.update_status publishes it
TaskStatusUpdateEvent(k, state, final, text) ==
    [kind |-> "status", task_id |-> k, state |-> state, final |-> final,
     code |-> "", text |-> text]

\* TaskArtifactUpdateEvent, as TaskUpdater.add_artifact publishes it
TaskArtifactUpdateEvent(k, text) ==
    [kind |-> "artifact", task_id |-> k, state |-> "", final |-> FALSE,
     code |-> "", text |-> text]

\* ErrorEvent(code=..., message=..., task_id=...)
ErrorEvent(k, code, message) ==
    [kind |-> "error", task_id |-> k, state |-> "", final |-> FALSE,
     code |-> code, text |-> message]

\* new_agent_text_message(text=response_text, ...)
AgentTextMessage(k, text) ==
    [kind |-> "message", task_id |-> k, state |-> "", final |-> FALSE,
     code |-> "", text |-> text]

\* event_queue.enqueue_event for each of events, in order
Enqueue(k, events) ==
    event_queue' = [event_queue EXCEPT ![k] = @ \o events]

\* Events execute has published for the task (cancel publishes one each).
Published(k) == Len(event_queue[k]) - a2a_task[k].cancels

\* LangGraphAgentExecutor.execute: it has no await, so it runs as one step.
\* current_task: whether the request came with a task; outcome: what
\* agent.invoke does.
LgExecute(k, current_task, outcome) ==
    /\ ExecutorOf(k) = "LangGraphAgentExecutor"
    /\ Published(k) + EventsPerExecute <= MaxEvents
    /\ GetThreadId("default_user", ContextId(k))
    /\ Enqueue(k,
          (IF current_task THEN <<>>
           ELSE <<TaskStatusUpdateEvent(k, "submitted", FALSE, "")>>)
          \o <<TaskStatusUpdateEvent(k, "working", FALSE, "")>>
          \o (CASE outcome = "final_text" ->
                     <<TaskArtifactUpdateEvent(k, "final_text"),
                       TaskStatusUpdateEvent(k, "completed", TRUE, "")>>
                [] outcome = "no_text" ->
                     <<TaskStatusUpdateEvent(k, "completed", TRUE, "")>>
                [] outcome = "raises" ->
                     <<TaskStatusUpdateEvent(k, "failed", TRUE, "Error: e")>>))
    /\ UNCHANGED <<singletonVars, toolVars, probe, a2a_task>>

\* SupportAgentExecutor.cancel with a fault: the work is dropped and a
\* cancelled status is published.
SaCancelStopsWork(k) ==
    /\ ExecutorOf(k) = "SupportAgentExecutor"
    /\ a2a_task[k].cancels < MaxCancels
    /\ a2a_task' = [a2a_task EXCEPT ![k].cancels = @ + 1, ![k].pc = "idle"]
    /\ Enqueue(k, <<TaskStatusUpdateEvent(k, "canceled", TRUE, "")>>)
    /\ UNCHANGED <<singletonVars, toolVars, probe, mapperVars>>

\* LangGraphAgentExecutor.cancel
LgCancel(k) ==
    /\ ExecutorOf(k) = "LangGraphAgentExecutor"
    /\ a2a_task[k].cancels < MaxCancels
    /\ a2a_task' = [a2a_task EXCEPT ![k].cancels = @ + 1]
    /\ Enqueue(k, <<TaskStatusUpdateEvent(k, "failed", TRUE,
                                          "Cancellation not supported.")>>)
    /\ UNCHANGED <<singletonVars, toolVars, probe, mapperVars>>

\* SupportAgentExecutor.execute up to its first await; has_text: whether
\* get_text_from_message finds text in the message.
SaExecute(k, has_text) ==
    /\ ExecutorOf(k) = "SupportAgentExecutor"
    /\ a2a_task[k].pc = "idle"
    /\ Published(k) + EventsPerExecute <= MaxEvents
    /\ IF has_text
       THEN /\ a2a_task' = [a2a_task EXCEPT ![k].pc = "sa_load"]
            /\ UNCHANGED event_queue
       ELSE /\ Enqueue(k, <<ErrorEvent(k, "INVALID_REQUEST",
                                       "No text content in message.")>>)
            /\ UNCHANGED a2a_task
    /\ UNCHANGED <<singletonVars, toolVars, probe, mapperVars>>

\* await self.agent_logic._load_or_create_session(...)
SaLoad(k) ==
    /\ a2a_task[k].pc = "sa_load"
    /\ a2a_task' = [a2a_task EXCEPT ![k].pc = "sa_history"]
    /\ UNCHANGED <<singletonVars, toolVars, probe, mapperVars, event_queue>>

\* await self.agent_logic._add_to_history_and_save(...)
SaHistory(k) ==
    /\ a2a_task[k].pc = "sa_history"
    /\ a2a_task' = [a2a_task EXCEPT ![k].pc = "sa_process"]
    /\ UNCHANGED <<singletonVars, toolVars, probe, mapperVars, event_queue>>

\* await self.agent_logic.process_message(...), then the response is
\* enqueued
SaProcess(k) ==
    /\ a2a_task[k].pc = "sa_process"
    /\ a2a_task' = [a2a_task EXCEPT ![k].pc = "idle"]
    /\ Enqueue(k, <<AgentTextMessage(k, "response_text")>>)
    /\ UNCHANGED <<singletonVars, toolVars, probe, mapperVars>>

\* except Exception as e: one of the awaits raises
SaRaises(k) ==
    /\ a2a_task[k].pc \in {"sa_load", "sa_history", "sa_process"}
    /\ a2a_task' = [a2a_task EXCEPT ![k].pc = "idle"]
    /\ Enqueue(k, <<ErrorEvent(k, "INTERNAL_ERROR", "str(e)")>>)
    /\ UNCHANGED <<singletonVars, toolVars, probe, mapperVars>>

\* SupportAgentExecutor.cancel
SaCancel(k) ==
    /\ ExecutorOf(k) = "SupportAgentExecutor"
    /\ a2a_task[k].cancels < MaxCancels
    /\ a2a_task' = [a2a_task EXCEPT ![k].cancels = @ + 1]
    /\ Enqueue(k, <<ErrorEvent(k, "NOT_SUPPORTED",
             "Cancellation is not fully supported by this agent.")>>)
    /\ UNCHANGED <<singletonVars, toolVars, probe, mapperVars>>

InitExecutors ==
    /\ ToolsAtRest
    /\ ProbeAtRest
    /\ MapperAtRest
    /\ ExecutorsAtRest
    /\ SingletonAtRest

\* The requests the A2A server hands to the executors, each as a task of
\* its event loop.
NextExecutors ==
    \E k \in A2ATasks :
        \/ \E current_task \in BOOLEAN,
              outcome \in {"final_text", "no_text", "raises"} :
                LgExecute(k, current_task, outcome)
        \/ LgCancel(k)
        \/ \E has_text \in BOOLEAN : SaExecute(k, has_text)
        \/ SaLoad(k)
        \/ SaHistory(k)
        \/ SaProcess(k)
        \/ SaRaises(k)
        \/ SaCancel(k)

SpecExecutors == InitExecutors /\ [][NextExecutors]_vars

(***************************************************************************)
(* Vocabulary of the properties.                                           *)
(***************************************************************************)
\* The three-clause overlap test of the specification, of the interval
\* [s1, e1) against [s2, e2).
ThreeClauseOverlap(s1, e1, s2, e2) ==
    \/ s1 < e2 /\ s1 >= s2
    \/ e1 > s2 /\ e1 <= e2
    \/ s1 <= s2 /\ e1 >= e2

\* Two slots overlap when the test flags them, either way round.
SlotsOverlap(a, b) ==
    \/ ThreeClauseOverlap(a.start_time, a.end_time, b.start_time, b.end_time)
    \/ ThreeClauseOverlap(b.start_time, b.end_time, a.start_time, a.end_time)

\* The task has returned from (or raised in) a call of the tool.
Returned(p, op) == task[p].op = op /\ task[p].pc = "done"

\* The unbooked slots of coll with exactly the window of the request.
ExactUnbooked(coll, request) ==
    {i \in 1..Len(coll) :
        /\ coll[i].booked = FALSE
        /\ coll[i].start_time = request.start_time
        /\ coll[i].end_time = request.end_time}

\* The booked slots of coll that overlap the window [s, e).
BookedOverlapping(coll, s, e) ==
    {d \in Docs(coll) :
        d.booked /\ ThreeClauseOverlap(d.start_time, d.end_time, s, e)}

\* The request's descriptive and contact fields are those of the record r.
CarriesRequest(r, request) ==
    /\ r.title = request.title
    /\ r.description = request.description
    /\ r.name = request.name
    /\ r.phone_number = request.phone_number

(***************************************************************************)
(* C1. Calls run one at a time: in every state of the collection no two    *)
(* booked slots overlap by the three-clause test, bookings through the     *)
(* exact-match reuse of an unbooked slot included.                         *)
(***************************************************************************)
NoTwoBookedOverlap ==
    \A i, j \in 1..Len(store) :
        (i < j /\ store[i].booked /\ store[j].booked)
            => ~SlotsOverlap(store[i], store[j])

(***************************************************************************)
(* C2. Two concurrent schedule_meeting calls for the exact window of one   *)
(* unbooked slot: they never both return that slot's id through the reuse  *)
(* path, and the slot a call has claimed keeps that call's fields.         *)
(***************************************************************************)
ReuseOnlyOnce ==
    \A p \in Procs :
        (Returned(p, "schedule_meeting") /\ task[p].path = "reused") =>
            /\ \A q \in Procs \ {p} :
                 (Returned(q, "schedule_meeting") /\ task[q].path = "reused")
                     => Get(task[q].result).id # Get(task[p].result).id
            /\ \A d \in Docs(store) :
                 ObjectIdStr(d.id) = Get(task[p].result).id
                     => CarriesRequest(d, Get(task[p].request))

(***************************************************************************)
(* C3. Two concurrent schedule_meeting calls with overlapping windows and  *)
(* no exact unbooked match: they never both insert a booked slot.          *)
(***************************************************************************)
CreateOnlyOnce ==
    \A p, q \in Procs :
        (/\ p # q
         /\ Returned(p, "schedule_meeting") /\ task[p].path = "created"
         /\ Returned(q, "schedule_meeting") /\ task[q].path = "created")
            => ~SlotsOverlap(Get(task[p].result), Get(task[q].result))

(***************************************************************************)
(* C4. Calls run one at a time: a schedule_meeting request whose window is *)
(* exactly that of an unbooked slot reuses such a slot: the result carries *)
(* its id with booked = true, the stored slot is booked with the request's *)
(* title, description, name and phone_number, and no slot is added.        *)
(***************************************************************************)
ReuseExactMatch ==
    \A p \in Procs :
        LET t == task[p]
        IN  (Returned(p, "schedule_meeting")
                /\ ExactUnbooked(pre, Get(t.request)) # {}) =>
            /\ t.path = "reused"
            /\ Len(store) = Len(pre)
            /\ \E i \in ExactUnbooked(pre, Get(t.request)) :
                 /\ Get(t.result).id = ObjectIdStr(pre[i].id)
                 /\ Get(t.result).booked = TRUE
                 /\ store[i].id = pre[i].id
                 /\ store[i].booked = TRUE
                 /\ CarriesRequest(store[i], Get(t.request))

ReuseExactMatchWitness ==
    \E p \in Procs :
        /\ Returned(p, "schedule_meeting")
        /\ ExactUnbooked(pre, Get(task[p].request)) # {}
        /\ task[p].path = "reused"
        /\ \E i \in ExactUnbooked(pre, Get(task[p].request)) :
             ~CarriesRequest(pre[i], Get(task[p].request))

ConflictExactlyWhen ==
    \A p \in Procs :
        Returned(p, "schedule_meeting") =>
            LET t == task[p]
                request == Get(t.request)
                over == BookedOverlapping(pre, request.start_time, request.end_time)
                conflict == ExactUnbooked(pre, request) = {} /\ over # {}
            IN  /\ conflict <=> t.path = "conflict"
                /\ conflict =>
                     /\ t.result # None
                     /\ Get(t.result).booked = FALSE
                     /\ Get(t.result).title = "Conflicting Meeting"
                     /\ \E d \in over :
                          /\ Get(t.result).id = ObjectIdStr(d.id)
                          /\ Get(t.result).name = d.name
                          /\ Get(t.result).phone_number = d.phone_number
                          /\ Get(t.result).start_time = d.start_time
                          /\ Get(t.result).end_time = d.end_time
                /\ t.result # None => (Get(t.result).booked = FALSE <=> conflict)

ConflictExactlyWhenWitness ==
    \E p \in Procs :
        /\ Returned(p, "schedule_meeting")
        /\ task[p].path = "conflict"
        /\ Get(task[p].result).start_time # Get(task[p].request).start_time
        /\ Get(task[p].result).end_time # Get(task[p].request).end_time

SynthesisBounded ==
    \A p \in Procs :
        LET t == task[p]
        IN  t.op = "get_free_slots" =>
            /\ t.attempts <= 20
            /\ t.suggested_count <= 5
            /\ t.pc = "gfs_check" =>
                 /\ t.attempts < 20
                 /\ t.queries = 1 + t.attempts
                 /\ ENABLED GfsCheck(p)
            /\ (t.pc = "done" /\ t.path = "synthesized") =>
                 /\ t.queries = 1 + t.attempts
                 /\ Len(t.available_slots_responses) = t.suggested_count
                 /\ Len(t.available_slots_responses) <= 5

SynthesisBoundedWitness ==
    \E p \in Procs :
        /\ Returned(p, "get_free_slots")
        /\ task[p].path = "synthesized"
        /\ task[p].attempts = 20
        /\ task[p].available_slots_responses = <<>>

(***************************************************************************)
(* C9. Every slot get_free_slots synthesizes overlaps, by the three-clause *)
(* test, no slot that is booked in the collection when it is checked.      *)
(***************************************************************************)
SynthesizedAvoidsBooked ==
    [][\A p \in Procs :
          (/\ task[p].pc = "gfs_check"
           /\ Len(task'[p].available_slots_responses)
                 > Len(task[p].available_slots_responses)) =>
              LET r == task'[p].available_slots_responses[
                           Len(task'[p].available_slots_responses)]
              IN  BookedOverlapping(store, r.start_time, r.end_time) = {}]_vars

SynthesizedAvoidsBookedWitness ==
    \E p \in Procs :
        /\ task[p].op = "get_free_slots"
        /\ task[p].pc \in {"gfs_check", "done"}
        /\ task[p].suggested_count > 0
        /\ task[p].suggested_count < task[p].attempts

(***************************************************************************)
(* C10. Calls run one at a time: when some stored slot is unbooked (and    *)
(* starts at or after start_after, when given), get_free_slots returns     *)
(* exactly the windows of those slots, in ascending start_time order;      *)
(* slots are synthesized only when there is no such stored slot.           *)
(***************************************************************************)
\* The stored slots the listing is about.
StoredFree(coll, start_after) ==
    {d \in Docs(coll) :
        /\ d.booked = FALSE
        /\ start_after # None => d.start_time >= Get(start_after)}

StoredFreeListed ==
    \A p \in Procs :
        LET t == task[p]
            free == StoredFree(pre, t.start_after)
            listed == t.available_slots_responses
        IN  (t.op = "get_free_slots" /\ t.pc \in {"gfs_check", "done"}) =>
            /\ free # {} <=> t.path = "stored"
            /\ free # {} =>
                 /\ t.pc = "done"
                 /\ Len(listed) = Cardinality(free)
                 /\ \A d \in free :
                      Cardinality({i \in 1..Len(listed) :
                                     listed[i] = FreeSlotResponse(d.start_time, d.end_time)})
                        = Cardinality({e \in free : /\ e.start_time = d.start_time
                                                    /\ e.end_time = d.end_time})
                 /\ \A i, j \in 1..Len(listed) :
                      i < j => listed[i].start_time <= listed[j].start_time

\* The listing leaves out an earlier unbooked slot and a booked one, and
\* returns the others in an order that is not the collection's.
StoredFreeListedWitness ==
    \E p \in Procs :
        /\ Returned(p, "get_free_slots")
        /\ task[p].path = "stored"
        /\ Len(task[p].available_slots_responses) >= 2
        /\ \E d \in Docs(pre) : d.booked = FALSE /\ d \notin StoredFree(pre, task[p].start_after)
        /\ \E i, j \in 1..Len(pre) :
             /\ i < j
             /\ pre[i] \in StoredFree(pre, task[p].start_after)
             /\ pre[j] \in StoredFree(pre, task[p].start_after)
             /\ pre[i].start_time > pre[j].start_time

(***************************************************************************)
(* C11. Calls run one at a time: in the synthesis of get_free_slots the    *)
(* candidates are base + k hours, k = 0, 1, ..., 19, each duration_minutes *)
(* long, examined in ascending k, one per attempt; the list is exactly the *)
(* candidates examined so far that no booked slot overlaps, in ascending   *)
(* order, none skipped, and the loop stops at the fifth or after k = 19.   *)
(***************************************************************************)
\* The candidate of attempt k of the task's synthesis.
Candidate(t, k) ==
    FreeSlotResponse(
        t.current_hour + k * 3600,
        t.current_hour + k * 3600 + 60 * DurationOrDefault(t.duration_minutes))

\* The candidates 0 .. n-1 that pass the overlap check against coll, in
\* ascending k.
PassingCandidates(coll, t, n) ==
    SelectSeq([j \in 1..n |-> Candidate(t, j - 1)],
              LAMBDA c : BookedOverlapping(coll, c.start_time, c.end_time) = {})

SynthesisFirstPassing ==
    \A p \in Procs :
        LET t == task[p]
            listed == t.available_slots_responses
        IN  (t.op = "get_free_slots"
                /\ (t.pc = "gfs_check" \/ (t.pc = "done" /\ t.path = "synthesized"))) =>
            /\ t.attempts \in 0..20
            /\ listed = PassingCandidates(pre, t, t.attempts)
            /\ Len(listed) <= 5
            /\ \A i, j \in 1..Len(listed) :
                 i < j => listed[i].start_time < listed[j].start_time
            /\ t.pc = "gfs_check" => Len(listed) < 5 /\ t.attempts < 20
            /\ t.pc = "done" =>
                 /\ Len(listed) = 5 \/ t.attempts = 20
                 /\ Len(listed) = 5 => listed[5] = Candidate(t, t.attempts - 1)

\* Five slots are returned after more than five attempts, the first
\* candidate among the rejected ones.
SynthesisFirstPassingWitness ==
    \E p \in Procs :
        /\ Returned(p, "get_free_slots")
        /\ task[p].path = "synthesized"
        /\ Len(task[p].available_slots_responses) = 5
        /\ task[p].attempts > 5
        /\ task[p].available_slots_responses[1].start_time > task[p].current_hour

(***************************************************************************)
(* C12. For every stored and every requested interval with start < end,    *)
(* the three-clause overlap query flags the pair exactly when the two      *)
(* overlap half-open (A.start < B.end and B.start < A.end); it answers the *)
(* same with the two intervals exchanged, and it does not flag intervals   *)
(* of which one ends where the other starts.                               *)
(***************************************************************************)
HalfOpenOverlap(a, b) == a[1] < b[2] /\ b[1] < a[2]

OverlapTestExact ==
    (probe # None /\ Get(probe).flagged # None) =>
        LET stored == Get(probe).stored
            requested == Get(probe).requested
            flagged == Get(Get(probe).flagged)
            swapped == Get(Get(probe).swapped)
        IN  /\ flagged <=> HalfOpenOverlap(stored, requested)
            /\ swapped <=> flagged
            /\ (stored[2] = requested[1] \/ requested[2] = stored[1]) => ~flagged

\* The stored slot lies strictly inside the requested window: the pair is
\* flagged by one clause this way round and by another when exchanged.
OverlapTestExactWitness ==
    /\ probe # None
    /\ Get(probe).flagged = Some(TRUE)
    /\ Get(probe).swapped = Some(TRUE)
    /\ Get(probe).requested[1] < Get(probe).stored[1]
    /\ Get(probe).stored[2] < Get(probe).requested[2]

BookedAndStoredStay ==
    [][/\ Len(store') >= Len(store)
       /\ \A i \in 1..Len(store) :
            /\ store'[i].id = store[i].id
            /\ store[i].booked => store'[i].booked]_vars

\* Two concurrent calls have both updated the same slot, the second when
\* it was already booked.
BookedAndStoredStayWitness ==
    /\ \E i \in 1..Len(store) :
         /\ i <= Len(initial_slots_data)
         /\ store[i].booked
         /\ ~initial_slots_data[i].booked
    /\ \E p, q \in Procs :
         /\ p # q
         /\ Returned(p, "schedule_meeting") /\ task[p].path = "reused"
         /\ Returned(q, "schedule_meeting") /\ task[q].path = "reused"
         /\ Get(task[p].result).id = Get(task[q].result).id

(***************************************************************************)
(* C15. Tool calls in any order and interleaving: no step changes the id,  *)
(* the start_time or the end_time of a stored slot; a stored slot changes  *)
(* only in the update of the reuse path of schedule_meeting, and then it   *)
(* is the slot that call has matched (so only booked, title, description,  *)
(* name and phone_number change).                                          *)
(***************************************************************************)
IdAndWindowFixed ==
    [][\A i \in 1..Len(store) :
          /\ i <= Len(store')
          /\ store'[i].id = store[i].id
          /\ store'[i].start_time = store[i].start_time
          /\ store'[i].end_time = store[i].end_time
          /\ store'[i] # store[i] =>
                \E p \in Procs :
                    /\ task[p].pc = "sm_update"
                    /\ task'[p].path = "reused"
                    /\ Get(task[p].existing_slot_data).id = store[i].id]_vars

\* A seeded slot has been claimed: it carries the caller's name and the
\* window it was seeded with.
IdAndWindowFixedWitness ==
    \E p \in Procs :
        /\ Returned(p, "schedule_meeting")
        /\ task[p].path = "reused"
        /\ \E i \in 1..Len(store) :
             /\ i <= Len(initial_slots_data)
             /\ ObjectIdStr(store[i].id) = Get(task[p].result).id
             /\ store[i].name # initial_slots_data[i].name
             /\ store[i].start_time = initial_slots_data[i].start_time
             /\ store[i].end_time = initial_slots_data[i].end_time

(***************************************************************************)
(* C16. Calls run one at a time, the store unreachable at any round-trip   *)
(* of the tool's body: when schedule_meeting or add_potential_slot ends    *)
(* with a failure, the collection is what it was when the body started: no *)
(* slot has been inserted or booked for the caller.                        *)
(***************************************************************************)
EndedWithFailure(p) ==
    /\ task[p].op \in {"schedule_meeting", "add_potential_slot"}
    /\ task[p].pc = "done"
    /\ task[p].path \in {"raised_connection", "raised_update", "raised_readback"}

FailureLeavesStore ==
    \A p \in Procs : EndedWithFailure(p) => store = pre

(***************************************************************************)
(* C17. When the unbooked slot that the exact lookup matched is gone by    *)
(* the time the update is applied, schedule_meeting ends with an error: it *)
(* makes no overlap check, inserts nothing and returns no slot.            *)
(***************************************************************************)
VanishedSlotFails ==
    [][\A p \in Procs :
          (/\ task[p].pc = "sm_update"
           /\ task'[p] # task[p]
           /\ FindOneById(store, Get(task[p].existing_slot_data).id) = {}) =>
              /\ task'[p].pc = "done"
              /\ task'[p].path = "raised_update"
              /\ task'[p].result = None
              /\ task'[p].inserted_id = None
              /\ task'[p].queries = 2
              /\ store' = store]_vars

VanishedSlotFailsWitness ==
    \E p \in Procs :
        /\ Returned(p, "schedule_meeting")
        /\ task[p].path = "raised_update"
        /\ FindOneById(store, Get(task[p].existing_slot_data).id) = {}

(***************************************************************************)
(* C18. Calls run one at a time: in the synthesis of get_free_slots the    *)
(* base is a whole hour, equal to the reference time (start_after, or the  *)
(* current time) when that is exactly on the hour and the next whole hour  *)
(* otherwise; so the base is not before the reference time and every       *)
(* synthesized slot starts at or after it.                                 *)
(***************************************************************************)
BaseRoundedUp ==
    \A p \in Procs :
        LET t == task[p]
            reference == t.now
            base == t.current_hour
        IN  (t.op = "get_free_slots"
                /\ (t.pc = "gfs_check" \/ (t.pc = "done" /\ t.path = "synthesized"))) =>
            /\ base % 3600 = 0
            /\ reference % 3600 = 0 => base = reference
            /\ reference % 3600 # 0 => base = reference - (reference % 3600) + 3600
            /\ base >= reference
            /\ \A i \in 1..Len(t.available_slots_responses) :
                 t.available_slots_responses[i].start_time >= reference

(***************************************************************************)
(* C19. Every cancel request to an agent executor is rejected: the step    *)
(* that handles it leaves the position of every execute in flight, and the *)
(* mapper, as they were, publishes exactly one event for the task, a final *)
(* failed status or a NOT_SUPPORTED error, and no event ever carries the   *)
(* state canceled.                                                         *)
(***************************************************************************)
CancelRejected ==
    [][\A k \in A2ATasks :
          /\ \A i \in 1..Len(event_queue'[k]) :
                event_queue'[k][i].state # "canceled"
          /\ a2a_task'[k].cancels # a2a_task[k].cancels =>
                /\ \A j \in A2ATasks : a2a_task'[j].pc = a2a_task[j].pc
                /\ UNCHANGED mapperVars
                /\ \A j \in A2ATasks \ {k} : event_queue'[j] = event_queue[j]
                /\ Len(event_queue'[k]) = Len(event_queue[k]) + 1
                /\ SubSeq(event_queue'[k], 1, Len(event_queue[k])) = event_queue[k]
                /\ LET e == event_queue'[k][Len(event_queue'[k])]
                   IN  /\ e.task_id = k
                       /\ \/ e.kind = "status" /\ e.state = "failed" /\ e.final
                          \/ e.kind = "error" /\ e.code = "NOT_SUPPORTED"]_vars

\* A cancel request was handled while an execute was in flight, and that
\* execute has since published its response.
CancelRejectedWitness ==
    \E k \in A2ATasks :
        \E i, j \in 1..Len(event_queue[k]) :
            /\ i < j
            /\ event_queue[k][i].code = "NOT_SUPPORTED"
            /\ event_queue[k][j].kind = "message"
            /\ \A h \in 1..(i - 1) : event_queue[k][h].kind # "message"
            /\ a2a_task[k].cancels = 1

(***************************************************************************)
(* C20. get_thread_id returns the same thread id for the same (user_id,    *)
(* session_id) pair on every call, whatever get_thread_id, clear_session   *)
(* and clear_all calls come between: after a mapping is cleared the next   *)
(* call issues the id issued before.                                       *)
(***************************************************************************)
SameThreadIdEveryCall ==
    \A i, j \in 1..Len(mapper_log) :
        (/\ mapper_log[i].op = "get_thread_id"
         /\ mapper_log[j].op = "get_thread_id"
         /\ mapper_log[i].key = mapper_log[j].key)
            => mapper_log[i].result = mapper_log[j].result

\* The pair is asked for, its mapping is cleared (by clear_session, or by
\* clear_all), and the pair is asked for again.
SameThreadIdEveryCallWitness ==
    \E i, k, j \in 1..Len(mapper_log) :
        /\ i < k /\ k < j
        /\ mapper_log[i].op = "get_thread_id"
        /\ mapper_log[j].op = "get_thread_id"
        /\ mapper_log[i].key = mapper_log[j].key
        /\ \/ mapper_log[k].op = "clear_all"
           \/ /\ mapper_log[k].op = "clear_session"
              /\ mapper_log[k].key = mapper_log[i].key
              /\ mapper_log[k].result = "True"
        /\ mapper_log[i].key \in DOMAIN session_to_thread

(***************************************************************************)
(* C21. After any sequence of get_thread_id, get_session_info,             *)
(* clear_session and clear_all calls (each runs under the mapper's lock,   *)
(* so the calls of concurrent threads take effect one after the other),    *)
(* the two tables are inverse of each other: a pair maps to thread t in    *)
(* _session_to_thread if and only if t maps to that pair in                *)
(* _thread_to_session.                                                     *)
(***************************************************************************)
TablesInverse ==
    /\ \A key \in DOMAIN session_to_thread :
         /\ session_to_thread[key] \in DOMAIN thread_to_session
         /\ thread_to_session[session_to_thread[key]] = key
    /\ \A t \in DOMAIN thread_to_session :
         /\ thread_to_session[t] \in DOMAIN session_to_thread
         /\ session_to_thread[thread_to_session[t]] = t

(***************************************************************************)
(* C22. clear_session returns True exactly when the pair has a mapping,    *)
(* and then removes the pair from both tables and leaves the mapping of    *)
(* every other pair, in both tables, as it was; it returns False and       *)
(* changes nothing when the pair has none; it never ends with an error.    *)
(***************************************************************************)
ClearSessionExact ==
    [][(/\ Len(mapper_log') = Len(mapper_log) + 1
        /\ mapper_log'[Len(mapper_log')].op = "clear_session") =>
          LET call == mapper_log'[Len(mapper_log')]
              mapped == call.key \in DOMAIN session_to_thread
          IN  /\ call.result # "KeyError"
              /\ call.result = "True" <=> mapped
              /\ call.result = "False" <=> ~mapped
              /\ ~mapped => UNCHANGED <<session_to_thread, thread_to_session>>
              /\ mapped =>
                   /\ session_to_thread' = Del(session_to_thread, call.key)
                   /\ \A t \in DOMAIN thread_to_session :
                        thread_to_session[t] # call.key =>
                            /\ t \in DOMAIN thread_to_session'
                            /\ thread_to_session'[t] = thread_to_session[t]]_vars

(***************************************************************************)
(* C30. Distinct (user_id, session_id) pairs have distinct thread ids,     *)
(* ids that contain ':' included: for every active pair get_session_info   *)
(* of its thread id returns that pair, and no two active pairs share a     *)
(* thread id.                                                              *)
(***************************************************************************)
DistinctPairsDistinctThreads ==
    /\ \A a, b \in DOMAIN session_to_thread :
         a # b => session_to_thread[a] # session_to_thread[b]
    /\ \A key \in DOMAIN session_to_thread :
         session_to_thread[key] \in DOMAIN thread_to_session =>
             thread_to_session[session_to_thread[key]] = key

(***************************************************************************)
(* C23. Under any interleaving of get_session_mapper and                   *)
(* reset_session_mapper calls from concurrent threads, get_session_mapper  *)
(* returns a SessionThreadMapper instance, never None, and at most one     *)
(* instance is constructed between two resets.                             *)
(***************************************************************************)
\* No two instances were constructed in the same reset epoch.
OneInstancePerEpoch ==
    \A i, j \in 1..Len(created) : i # j => created[i] # created[j]

GetReturnsTheInstance ==
    /\ \A th \in Threads :
         (caller[th].op = "get_session_mapper" /\ caller[th].pc = "done")
             => Get(caller[th].result) # None
    /\ OneInstancePerEpoch

(***************************************************************************)
(* C24. Over any sequence of tool calls in one process: the handles        *)
(* mongo_client and db are set once and never change afterwards; the       *)
(* seeding is entered only by the call that sets them, so it runs at most  *)
(* once; it inserts the three initial slots, one after the other, only     *)
(* when its count finds the collection empty, and when the count finds a   *)
(* slot the call goes on to its body with nothing inserted.                *)
(***************************************************************************)
SeedsAtMostOnce ==
    [][/\ db # "None" => (db' = db /\ mongo_client' = mongo_client)
       /\ \A p \in Procs :
            /\ (task[p].pc # "seed_count" /\ task'[p].pc = "seed_count")
                  => (db = "None" /\ db' = "db" /\ mongo_client' = "client")
            /\ (task[p].pc # "seed_insert" /\ task'[p].pc = "seed_insert")
                  => (task[p].pc = "seed_count" /\ Len(store) = 0
                        /\ task'[p].seed_i = 1 /\ store' = store)
            /\ (task[p].pc = "seed_count" /\ Len(store) > 0 /\ task'[p] # task[p])
                  => (task'[p].pc = BodyPc(task[p].op) /\ store' = store
                        /\ pre' = store)
            /\ (task[p].pc = "seed_insert" /\ task'[p] # task[p]) =>
                  LET i == task[p].seed_i
                  IN  /\ Len(store') = Len(store) + 1
                      /\ SubSeq(store', 1, Len(store)) = store
                      /\ store'[Len(store')] =
                            MeetingSlotDB(next_oid, initial_slots_data[i],
                                          initial_slots_data[i].booked)
                      /\ IF i < Len(initial_slots_data)
                         THEN task'[p].pc = "seed_insert" /\ task'[p].seed_i = i + 1
                         ELSE task'[p].pc = BodyPc(task[p].op)
       /\ (\A p \in Procs : task[p].pc # "seed_insert")
             => \A i \in 1..Len(initial_slots_data) :
                    Len(store') > Len(store) =>
                        store'[Len(store')].title # initial_slots_data[i].title]_vars

\* The first call has seeded the empty collection and returned, and the
\* collection starts with the three initial slots' windows.
SeedsAtMostOnceWitness ==
    \E p \in Procs :
        /\ task[p].pc = "done"
        /\ task[p].seed_i = Len(initial_slots_data)
        /\ Len(store) >= Len(initial_slots_data)
        /\ \A i \in 1..Len(initial_slots_data) :
             /\ store[i].start_time = initial_slots_data[i].start_time
             /\ store[i].end_time = initial_slots_data[i].end_time

(***************************************************************************)
(* C25. Concurrent tool calls: while the seeding that the first call has   *)
(* started is in progress (its count or its inserts are outstanding), no   *)
(* other call makes a round-trip of its body to the collection, and every  *)
(* insert of the seeding finds in the collection the initial slots it has  *)
(* inserted so far and nothing else.                                       *)
(***************************************************************************)
SeedingPcs == {"seed_count", "seed_insert"}

NoToolStepDuringSeeding ==
    [][\A p \in Procs :
          task[p].pc \in SeedingPcs =>
              /\ \A q \in Procs \ {p} :
                   task[q].pc \in StoreRoundTrips => task'[q] = task[q]
              /\ (task[p].pc = "seed_insert" /\ task'[p] # task[p])
                    => Len(store) = task[p].seed_i - 1]_vars

(***************************************************************************)
(* C26. Calls run one at a time: once a booked slot has the window         *)
(* (start_time, end_time), every schedule_meeting call for that window     *)
(* returns the conflict result with booked = false, whatever               *)
(* add_potential_slot calls were made; the collection never holds two      *)
(* booked slots with the same window.                                      *)
(***************************************************************************)
\* The booked slots of coll with exactly the window of the request.
ExactBooked(coll, request) ==
    {i \in 1..Len(coll) :
        /\ coll[i].booked = TRUE
        /\ coll[i].start_time = request.start_time
        /\ coll[i].end_time = request.end_time}

BookedWindowStaysTaken ==
    /\ \A p \in Procs :
         (Returned(p, "schedule_meeting")
             /\ ExactBooked(pre, Get(task[p].request)) # {}) =>
                /\ task[p].path = "conflict"
                /\ Get(task[p].result).booked = FALSE
    /\ \A i, j \in 1..Len(store) :
         (i < j /\ store[i].booked /\ store[j].booked) =>
             ~(/\ store[i].start_time = store[j].start_time
               /\ store[i].end_time = store[j].end_time)

(***************************************************************************)
(* C27. Calls run one at a time: the slots one get_free_slots call         *)
(* synthesizes have strictly ascending start times and no two of them      *)
(* overlap (by the three-clause test, either way round), whatever          *)
(* duration_minutes is.                                                    *)
(***************************************************************************)
SynthesizedDisjoint ==
    \A p \in Procs :
        LET t == task[p]
            listed == t.available_slots_responses
        IN  (t.op = "get_free_slots"
                /\ (t.pc = "gfs_check" \/ (t.pc = "done" /\ t.path = "synthesized"))) =>
            \A i, j \in 1..Len(listed) :
                i < j =>
                    /\ listed[i].start_time < listed[j].start_time
                    /\ ~SlotsOverlap(listed[i], listed[j])

\* C27 as amended: the starts ascend strictly, a whole number of hours
\* apart, for every duration; no two of the slots overlap when the
\* duration (30 when none or 0 is given) is at most 60 minutes.
SynthesizedDisjointUpToAnHour ==
    \A p \in Procs :
        LET t == task[p]
            listed == t.available_slots_responses
        IN  (t.op = "get_free_slots"
                /\ (t.pc = "gfs_check" \/ (t.pc = "done" /\ t.path = "synthesized"))) =>
            \A i, j \in 1..Len(listed) :
                i < j =>
                    /\ listed[i].start_time < listed[j].start_time
                    /\ (listed[j].start_time - listed[i].start_time) % 3600 = 0
                    /\ DurationOrDefault(t.duration_minutes) <= 60
                          => ~SlotsOverlap(listed[i], listed[j])

\* Two slots an hour long are synthesized back to back.
SynthesizedDisjointUpToAnHourWitness ==
    \E p \in Procs :
        LET listed == task[p].available_slots_responses
        IN  /\ Returned(p, "get_free_slots")
            /\ task[p].path = "synthesized"
            /\ DurationOrDefault(task[p].duration_minutes) = 60
            /\ \E i \in 1..(Len(listed) - 1) :
                 listed[i].end_time = listed[i + 1].start_time

FreeSlotsBookable ==
    \A p \in Procs :
        (Returned(p, "schedule_meeting") /\ task[p].from_free_slots) =>
            /\ task[p].path \in {"reused", "created"}
            /\ task[p].result # None
            /\ Get(task[p].result).booked = TRUE
            /\ Get(task[p].result).start_time = Get(task[p].request).start_time
            /\ Get(task[p].result).end_time = Get(task[p].request).end_time

\* A synthesized slot has been booked by creating it, on a collection
\* that holds a booked slot the synthesis had to avoid.
FreeSlotsBookableWitness ==
    \E p \in Procs :
        /\ Returned(p, "schedule_meeting")
        /\ task[p].from_free_slots
        /\ task[p].path = "created"
        /\ \E d \in Docs(pre) :
             d.booked /\ d.end_time = Get(task[p].request).start_time

====
